---- MODULE Spec2Model ----
(***************************************************************************)
(* Model of phone_agent/model/llama_client.py: LlamaModelClient.request    *)
(* (streaming chat request with live printing of the thinking text and     *)
(* detection of the action marker) and LlamaModelClient._parse_response    *)
(* (the final split of the complete text into thinking and action).        *)
(*                                                                         *)
(* A Python str is a sequence of one-character strings.                    *)
(***************************************************************************)
EXTENDS Integers, Sequences, FiniteSets, TLC

VARIABLES
    pc,                    \* position of the caller in request()
    pending,               \* text the server has not sent yet (client.events())
    nevents,               \* number of stream events taken from client.events()
    now,                   \* last value read from time.time(), counted from the call
    start_time,
    time_to_first_token,
    time_to_thinking_end,
    total_time,
    raw_content,
    buffer,
    in_action_phase,
    first_token_received,
    stdout,                \* characters printed live by the event loop
    metrics,               \* lines of the metrics block printed after the loop
    content,               \* argument of _parse_response
    thinking,              \* first component returned by _parse_response
    action,                \* second component returned by _parse_response
    result,                \* the ModelResponse returned by request()
    posts,                 \* number of requests.post calls issued
    deltas,                \* history: content of every content event processed
    snaps,                 \* history: characters sent, stdout, buffer and phase after each
    ttft_writes,           \* history: number of assignments to time_to_first_token
    ttte_writes            \* history: number of assignments to time_to_thinking_end

vars == <<pc, pending, nevents, now, start_time, time_to_first_token,
          time_to_thinking_end, total_time, raw_content, buffer,
          in_action_phase, first_token_received, stdout, metrics, content,
          thinking, action, result, posts, deltas, snaps, ttft_writes,
          ttte_writes>>

----------------------------------------------------------------------------
(* Bounds of the model *)

\* largest number of stream events one request consumes
MaxEvents == 3

\* largest value time.time() returns
MaxClock == 1

\* largest number of pieces an argument of _parse_response is built from
MaxPieces == 4

----------------------------------------------------------------------------
(* Python values *)

\* None, for the optional timestamps (the timestamps themselves are >= 0)
None == -1

\* the characters str.strip() removes
Whitespace == {" ", "\n", "\t"}

FinishMarker == <<"f", "i", "n", "i", "s", "h", "(", "m", "e", "s", "s", "a", "g", "e", "=">>

DoMarker == <<"d", "o", "(", "a", "c", "t", "i", "o", "n", "=">>

AnswerTag == <<"<", "a", "n", "s", "w", "e", "r", ">">>

AnswerEndTag == <<"<", "/", "a", "n", "s", "w", "e", "r", ">">>

ThinkTag == <<"<", "t", "h", "i", "n", "k", ">">>

ThinkEndTag == <<"<", "/", "t", "h", "i", "n", "k", ">">>

\* action_markers = ["finish(message=", "do(action="]
action_markers == <<FinishMarker, DoMarker>>

----------------------------------------------------------------------------
(* str operations *)

\* s[i-1:], 1-based
Drop(s, n) == SubSeq(s, n + 1, Len(s))

\* s[:n]
Take(s, n) == SubSeq(s, 1, n)

\* s.startswith(sub)
StartsWith(s, sub) == Len(sub) <= Len(s) /\ Take(s, Len(sub)) = sub

\* s.endswith(sub)
EndsWith(s, sub) ==
    Len(sub) <= Len(s) /\ SubSeq(s, Len(s) - Len(sub) + 1, Len(s)) = sub

RECURSIVE FindFrom(_, _, _)
\* s.find(sub, i-1) + 1: the least index >= i where sub occurs in s, 0 if none
FindFrom(s, sub, i) ==
    IF i + Len(sub) - 1 > Len(s) THEN 0
    ELSE IF SubSeq(s, i, i + Len(sub) - 1) = sub THEN i
    ELSE FindFrom(s, sub, i + 1)

Find(s, sub) == FindFrom(s, sub, 1)

\* sub in s
In(sub, s) == Find(s, sub) # 0

\* s.split(sep, 1) when sep is in s: <<parts[0], parts[1]>>
Split1(s, sep) ==
    LET i == Find(s, sep)
    IN  <<Take(s, i - 1), Drop(s, i + Len(sep) - 1)>>

RECURSIVE LStrip(_)
LStrip(s) ==
    IF s # <<>> /\ Head(s) \in Whitespace THEN LStrip(Tail(s)) ELSE s

RECURSIVE RStrip(_)
RStrip(s) ==
    IF s # <<>> /\ s[Len(s)] \in Whitespace THEN RStrip(Take(s, Len(s) - 1)) ELSE s

\* s.lstrip(): trailing whitespace kept
Strip_left_only(s) == LStrip(s)

\* s.strip()
Strip(s) == RStrip(LStrip(s))

RECURSIVE Remove(_, _)
\* s.replace(old, ""), old non-empty: occurrences are removed in one scan
\* from the left, and the scan resumes after each removed occurrence
Remove(s, old) ==
    IF s = <<>> THEN <<>>
    ELSE IF StartsWith(s, old) THEN Remove(Drop(s, Len(old)), old)
    ELSE <<Head(s)>> \o Remove(Tail(s), old)

----------------------------------------------------------------------------
(* LlamaModelClient._parse_response *)

\* _parse_response splitting at the last "finish(message=" (rsplit)
_parse_response_rsplit(c) ==
    IF In(FinishMarker, c) THEN
        LET i == CHOOSE j \in 1..Len(c) :
                    /\ SubSeq(c, j, j + Len(FinishMarker) - 1) = FinishMarker
                    /\ FindFrom(c, FinishMarker, j + 1) = 0
        IN  <<Strip(Take(c, i - 1)), FinishMarker \o Drop(c, i + Len(FinishMarker) - 1)>>
    ELSE IF In(DoMarker, c) THEN
        LET parts == Split1(c, DoMarker)
        IN  <<Strip(parts[1]), DoMarker \o parts[2]>>
    ELSE IF In(AnswerTag, c) THEN
        LET parts == Split1(c, AnswerTag)
        IN  <<Strip(Remove(Remove(parts[1], ThinkTag), ThinkEndTag)),
              Strip(Remove(parts[2], AnswerEndTag))>>
    ELSE <<<<>>, c>>

\* _parse_response testing "do(action=" before "finish(message="
_parse_response_do_first(c) ==
    IF In(DoMarker, c) THEN
        LET parts == Split1(c, DoMarker)
        IN  <<Strip(parts[1]), DoMarker \o parts[2]>>
    ELSE IF In(FinishMarker, c) THEN
        LET parts == Split1(c, FinishMarker)
        IN  <<Strip(parts[1]), FinishMarker \o parts[2]>>
    ELSE IF In(AnswerTag, c) THEN
        LET parts == Split1(c, AnswerTag)
        IN  <<Strip(Remove(Remove(parts[1], ThinkTag), ThinkEndTag)),
              Strip(Remove(parts[2], AnswerEndTag))>>
    ELSE <<<<>>, c>>

\* _parse_response removing only a closing tag at the very end of the answer
_parse_response_removesuffix(c) ==
    IF In(FinishMarker, c) THEN
        LET parts == Split1(c, FinishMarker)
        IN  <<Strip(parts[1]), FinishMarker \o parts[2]>>
    ELSE IF In(DoMarker, c) THEN
        LET parts == Split1(c, DoMarker)
        IN  <<Strip(parts[1]), DoMarker \o parts[2]>>
    ELSE IF In(AnswerTag, c) THEN
        LET parts == Split1(c, AnswerTag)
        IN  <<Strip(Remove(Remove(parts[1], ThinkTag), ThinkEndTag)),
              Strip(IF EndsWith(parts[2], AnswerEndTag)
                    THEN Take(parts[2], Len(parts[2]) - Len(AnswerEndTag))
                    ELSE parts[2])>>
    ELSE <<<<>>, c>>

\* _parse_response trimming the text it falls back to
_parse_response_strip_fallback(c) ==
    IF In(FinishMarker, c) THEN
        LET parts == Split1(c, FinishMarker)
        IN  <<Strip(parts[1]), FinishMarker \o parts[2]>>
    ELSE IF In(DoMarker, c) THEN
        LET parts == Split1(c, DoMarker)
        IN  <<Strip(parts[1]), DoMarker \o parts[2]>>
    ELSE IF In(AnswerTag, c) THEN
        LET parts == Split1(c, AnswerTag)
        IN  <<Strip(Remove(Remove(parts[1], ThinkTag), ThinkEndTag)),
              Strip(Remove(parts[2], AnswerEndTag))>>
    ELSE <<<<>>, Strip(c)>>

\* the split taken from the place where the live scan stopped printing
_parse_response_from_live(c) ==
    IF in_action_phase
    THEN <<Strip(Take(stdout, Len(stdout) - 1)), Drop(c, Len(stdout) - 1)>>
    ELSE IF In(AnswerTag, c) THEN
        LET parts == Split1(c, AnswerTag)
        IN  <<Strip(Remove(Remove(parts[1], ThinkTag), ThinkEndTag)),
              Strip(Remove(parts[2], AnswerEndTag))>>
    ELSE <<<<>>, c>>

_parse_response(c) ==
    IF In(FinishMarker, c) THEN
        LET parts == Split1(c, FinishMarker)
        IN  <<Strip(parts[1]), FinishMarker \o parts[2]>>
    ELSE IF In(DoMarker, c) THEN
        LET parts == Split1(c, DoMarker)
        IN  <<Strip(parts[1]), DoMarker \o parts[2]>>
    ELSE IF In(AnswerTag, c) THEN
        LET parts == Split1(c, AnswerTag)
        IN  <<Strip(Remove(Remove(parts[1], ThinkTag), ThinkEndTag)),
              Strip(Remove(parts[2], AnswerEndTag))>>
    ELSE <<<<>>, c>>

----------------------------------------------------------------------------
(* JSON values, as json.loads returns them *)

Null == [t |-> "null"]

Str(s) == [t |-> "str", s |-> s]

List(items) == [t |-> "list", items |-> items]

Dict(f) == [t |-> "dict", f |-> f]

EmptyDict == Dict([k \in {} |-> Null])

\* bool(v)
Truthy(v) ==
    CASE v.t = "null" -> FALSE
      [] v.t = "str"  -> v.s # <<>>
      [] v.t = "list" -> v.items # <<>>
      [] v.t = "dict" -> DOMAIN v.f # {}

\* v.get(key, default) of a dict v
Get(v, key, default) == IF key \in DOMAIN v.f THEN v.f[key] ELSE default

\* a or b
Or(a, b) == IF Truthy(a) THEN a ELSE b

\* event.data of the events a server sends: the sentinel, a body that is not
\* JSON, or the text of a JSON value v (json.loads(event.data) = v)
DoneEvent == [data |-> "[DONE]"]

NotJsonEvent == [data |-> "notjson"]

JsonEvent(v) == [data |-> "json", value |-> v]

\* {"choices": [{"delta": d}]}
DeltaEvent(d) == JsonEvent(Dict([choices |-> List(<<Dict([delta |-> d])>>)]))

\* the events that deliver no content
NoContentEvents ==
    { NotJsonEvent,
      JsonEvent(List(<<>>)),
      JsonEvent(EmptyDict),
      JsonEvent(Dict([choices |-> List(<<>>)])),
      JsonEvent(Dict([choices |-> List(<<EmptyDict>>)])),
      DeltaEvent(Null),
      DeltaEvent(EmptyDict),
      DeltaEvent(Dict([content |-> Str(<<>>)])),
      DeltaEvent(Dict([content |-> Null, text |-> Str(<<>>)])) }

\* the events that deliver the chunk c
ContentEvents(c) ==
    { DeltaEvent(Dict([content |-> Str(c)])),
      DeltaEvent(Dict([text |-> Str(c)])),
      DeltaEvent(Dict([content |-> Str(c), text |-> Str(<<"?">>)])) }

----------------------------------------------------------------------------
(* LlamaModelClient.request: the body of the event loop *)

\* lines 64-82: what the loop does with one event before it touches the
\* state: "break", "continue", "raise" (an exception no handler catches) or
\* "content" with the extracted content
Extract(event) ==
    IF event.data = "[DONE]" THEN [kind |-> "break"]
    ELSE IF event.data = "notjson" THEN [kind |-> "continue"]
    ELSE LET data == event.value IN
    IF data.t # "dict" THEN [kind |-> "raise"]
    ELSE LET choices == Get(data, "choices", List(<<>>)) IN
    IF ~Truthy(choices) THEN [kind |-> "continue"]
    ELSE IF choices.t # "list" \/ choices.items[1].t # "dict" THEN [kind |-> "raise"]
    ELSE LET delta == Get(choices.items[1], "delta", EmptyDict) IN
    IF delta.t # "dict" THEN [kind |-> "raise"]
    ELSE LET c == Or(Or(Get(delta, "content", Null), Get(delta, "text", Null)),
                     Str(<<>>)) IN
    IF ~Truthy(c) THEN [kind |-> "continue"]
    ELSE IF c.t # "str" THEN [kind |-> "raise"]
    ELSE [kind |-> "content", content |-> c.s]

\* raw_content accumulated after the phase test of line 90 instead of before
AppendRaw_after_phase_test(raw, c) == IF in_action_phase THEN raw ELSE raw \o c

\* line 84: raw_content += content
AppendRaw(raw, c) == raw \o c

\* the first_token_received test left out
WritesFirstToken_always(received) == TRUE

\* line 86: the condition under which time_to_first_token is assigned
WritesFirstToken(received) == ~received

\* the marker whose occurrence comes first in buf, whatever its rank
MarkerFound_earliest(buf) ==
    IF \E m \in 1..Len(action_markers) : In(action_markers[m], buf)
    THEN CHOOSE m \in 1..Len(action_markers) :
            /\ In(action_markers[m], buf)
            /\ \A n \in 1..Len(action_markers) :
                  In(action_markers[n], buf) =>
                      Find(buf, action_markers[m]) <= Find(buf, action_markers[n])
    ELSE 0

\* lines 96-97: the index in action_markers of the first marker that is in
\* buf, 0 if none is
MarkerFound(buf) ==
    IF \E m \in 1..Len(action_markers) : In(action_markers[m], buf)
    THEN CHOOSE m \in 1..Len(action_markers) :
            /\ In(action_markers[m], buf)
            /\ \A n \in 1..(m - 1) : ~In(action_markers[n], buf)
    ELSE 0

\* the flag recomputed from the current chunk alone
PhaseAfter_chunk_only(phase, found, c) == MarkerFound(c) # 0

\* lines 90-103: in_action_phase after an event with content c, found being
\* MarkerFound(buffer + c)
PhaseAfter(phase, found, c) == IF phase THEN TRUE ELSE found # 0

\* the assignment placed outside the "if marker in buffer" test
WritesThinkingEnd_any_chunk(found, ttte) == ttte = None

\* lines 97, 105: the condition under which time_to_thinking_end is assigned
\* by an event processed in the thinking phase
WritesThinkingEnd(found, ttte) == found # 0 /\ ttte = None

\* the outer loop left after the first marker
is_potential_marker_first_only(buf) ==
    \E i \in 1..(Len(action_markers[1]) - 1) :
        EndsWith(buf, Take(action_markers[1], i))

\* the prefixes of one character not tested (range(2, len(marker)))
is_potential_marker_from_two(buf) ==
    \E m \in 1..Len(action_markers) :
        \E i \in 2..(Len(action_markers[m]) - 1) :
            EndsWith(buf, Take(action_markers[m], i))

\* only the last marker of the list tested
is_potential_marker_last_only(buf) ==
    \E i \in 1..(Len(action_markers[Len(action_markers)]) - 1) :
        EndsWith(buf, Take(action_markers[Len(action_markers)], i))

\* lines 113-120
is_potential_marker(buf) ==
    \E m \in 1..Len(action_markers) :
        \E i \in 1..(Len(action_markers[m]) - 1) :
            EndsWith(buf, Take(action_markers[m], i))

----------------------------------------------------------------------------
(* The server: the complete texts it may stream.  It cuts the text into     *)
(* chunks wherever it likes, and it may end the stream at any point.        *)

Responses ==
    { <<"h", "i", " ">> \o DoMarker \o <<"r", ")">>,
      <<"a", " ">> \o FinishMarker \o <<"b", " ">>,
      <<" ">> \o DoMarker \o FinishMarker,
      <<"f", " ">> \o DoMarker,
      <<"m", "i", "d", " ", "d">>,
      AnswerTag \o <<"4">> \o AnswerEndTag }

----------------------------------------------------------------------------
(* LlamaModelClient.request *)

Init ==
    /\ pc = "idle"
    /\ pending \in Responses
    /\ nevents = 0
    /\ now = 0
    /\ start_time = 0
    /\ time_to_first_token = None
    /\ time_to_thinking_end = None
    /\ total_time = None
    /\ raw_content = <<>>
    /\ buffer = <<>>
    /\ in_action_phase = FALSE
    /\ first_token_received = FALSE
    /\ stdout = <<>>
    /\ metrics = <<>>
    /\ content = <<>>
    /\ thinking = <<>>
    /\ action = <<>>
    /\ result = None
    /\ posts = 0
    /\ deltas = <<>>
    /\ snaps = <<>>
    /\ ttft_writes = 0
    /\ ttte_writes = 0

\* lines 29-60 when requests.post succeeds with a success status
Post ==
    /\ pc = "idle"
    /\ start_time' = now
    /\ posts' = posts + 1
    /\ time_to_first_token' = None
    /\ time_to_thinking_end' = None
    /\ raw_content' = <<>>
    /\ buffer' = <<>>
    /\ in_action_phase' = FALSE
    /\ first_token_received' = FALSE
    /\ pc' = "loop"
    /\ UNCHANGED <<pending, nevents, now, total_time, stdout, metrics,
                   content, thinking, action, result, deltas, snaps,
                   ttft_writes, ttte_writes>>

\* the failure caught and the request issued again
PostFails_retry ==
    /\ pc = "idle"
    /\ start_time' = now
    /\ posts' = posts + 1
    /\ pc' = "idle"
    /\ UNCHANGED <<pending, nevents, now, time_to_first_token, time_to_thinking_end,
                   total_time, raw_content, buffer, in_action_phase,
                   first_token_received, stdout, metrics, content, thinking,
                   action, result, deltas, snaps, ttft_writes, ttte_writes>>

\* lines 29-52 when requests.post raises or raise_for_status() raises
PostFails ==
    /\ pc = "idle"
    /\ start_time' = now
    /\ posts' = posts + 1
    /\ pc' = "raised"
    /\ UNCHANGED <<pending, nevents, now, time_to_first_token, time_to_thinking_end,
                   total_time, raw_content, buffer, in_action_phase,
                   first_token_received, stdout, metrics, content, thinking,
                   action, result, deltas, snaps, ttft_writes, ttte_writes>>

\* the test of line 90 left out: every chunk goes through the marker scan
ProcessContent_no_phase_test(c, t1, t2) ==
    LET buf    == buffer \o c
        found  == MarkerFound(buf)
        reads1 == WritesFirstToken(first_token_received)
        reads2 == ~in_action_phase /\ WritesThinkingEnd(found, time_to_thinking_end)
    IN  /\ reads1 \/ t1 = now
        /\ reads2 \/ t2 = t1
        /\ now' = t2
        /\ raw_content' = AppendRaw(raw_content, c)
        /\ time_to_first_token' =
               IF reads1 THEN t1 - start_time ELSE time_to_first_token
        /\ ttft_writes' = IF reads1 THEN ttft_writes + 1 ELSE ttft_writes
        /\ first_token_received' = TRUE
        /\ in_action_phase' = PhaseAfter(in_action_phase, found, c)
        /\ time_to_thinking_end' =
               IF reads2 THEN t2 - start_time ELSE time_to_thinking_end
        /\ ttte_writes' = IF reads2 THEN ttte_writes + 1 ELSE ttte_writes
        /\ IF found # 0
           THEN /\ buffer' = buf
                /\ stdout' = stdout \o Split1(buf, action_markers[found])[1]
                                    \o <<"\n">>
           ELSE IF is_potential_marker(buf)
           THEN /\ buffer' = buf
                /\ UNCHANGED stdout
           ELSE /\ stdout' = stdout \o buf
                /\ buffer' = <<>>
        /\ pc' = "loop"

\* line 124 left out: the buffer is printed and kept
ProcessContent_no_clear(c, t1, t2) ==
    LET buf    == buffer \o c
        found  == MarkerFound(buf)
        reads1 == WritesFirstToken(first_token_received)
        reads2 == ~in_action_phase /\ WritesThinkingEnd(found, time_to_thinking_end)
    IN  /\ reads1 \/ t1 = now
        /\ reads2 \/ t2 = t1
        /\ now' = t2
        /\ raw_content' = AppendRaw(raw_content, c)
        /\ time_to_first_token' =
               IF reads1 THEN t1 - start_time ELSE time_to_first_token
        /\ ttft_writes' = IF reads1 THEN ttft_writes + 1 ELSE ttft_writes
        /\ first_token_received' = TRUE
        /\ in_action_phase' = PhaseAfter(in_action_phase, found, c)
        /\ time_to_thinking_end' =
               IF reads2 THEN t2 - start_time ELSE time_to_thinking_end
        /\ ttte_writes' = IF reads2 THEN ttte_writes + 1 ELSE ttte_writes
        /\ IF in_action_phase
           THEN UNCHANGED <<buffer, stdout>>
           ELSE IF found # 0
           THEN /\ buffer' = buf
                /\ stdout' = stdout \o Split1(buf, action_markers[found])[1]
                                    \o <<"\n">>
           ELSE IF is_potential_marker(buf)
           THEN /\ buffer' = buf
                /\ UNCHANGED stdout
           ELSE /\ stdout' = stdout \o buf
                /\ buffer' = buf
        /\ pc' = "loop"

\* lines 84-124: one event with non-empty content c; t1 and t2 are the values
\* of time.time() at lines 87 and 106
ProcessContent(c, t1, t2) ==
    LET buf    == buffer \o c
        found  == MarkerFound(buf)
        reads1 == WritesFirstToken(first_token_received)
        reads2 == ~in_action_phase /\ WritesThinkingEnd(found, time_to_thinking_end)
    IN  /\ reads1 \/ t1 = now
        /\ reads2 \/ t2 = t1
        /\ now' = t2
        /\ raw_content' = AppendRaw(raw_content, c)
        /\ time_to_first_token' =
               IF reads1 THEN t1 - start_time ELSE time_to_first_token
        /\ ttft_writes' = IF reads1 THEN ttft_writes + 1 ELSE ttft_writes
        /\ first_token_received' = TRUE
        /\ in_action_phase' = PhaseAfter(in_action_phase, found, c)
        /\ time_to_thinking_end' =
               IF reads2 THEN t2 - start_time ELSE time_to_thinking_end
        /\ ttte_writes' = IF reads2 THEN ttte_writes + 1 ELSE ttte_writes
        /\ IF in_action_phase
           THEN UNCHANGED <<buffer, stdout>>
           ELSE IF found # 0
           THEN /\ buffer' = buf
                /\ stdout' = stdout \o Split1(buf, action_markers[found])[1]
                                    \o <<"\n">>
           ELSE IF is_potential_marker(buf)
           THEN /\ buffer' = buf
                /\ UNCHANGED stdout
           ELSE /\ stdout' = stdout \o buf
                /\ buffer' = <<>>
        /\ pc' = "loop"

\* the number of characters the server has sent so far
Received == IF snaps = <<>> THEN 0 ELSE snaps[Len(snaps)].at

\* lines 63-124: one iteration of the loop over client.events(); the server
\* sends the next k characters of its text (k = 0: an event without content)
StreamEvent ==
    /\ pc = "loop"
    /\ nevents < MaxEvents
    /\ nevents' = nevents + 1
    /\ \E k \in 0..Len(pending) :
         \E event \in (IF k = 0 THEN {DoneEvent} \cup NoContentEvents
                                ELSE ContentEvents(Take(pending, k))) :
           LET x == Extract(event) IN
           /\ pending' = Drop(pending, k)
           /\ IF x.kind = "content"
              THEN \E t1 \in now..MaxClock : \E t2 \in t1..MaxClock :
                       ProcessContent(x.content, t1, t2)
              ELSE /\ pc' = CASE x.kind = "break"    -> "after_loop"
                              [] x.kind = "continue" -> "loop"
                              [] x.kind = "raise"    -> "raised"
                   /\ UNCHANGED <<now, time_to_first_token, time_to_thinking_end,
                                  raw_content, buffer, in_action_phase,
                                  first_token_received, stdout, ttft_writes,
                                  ttte_writes>>
           /\ IF k = 0
              THEN UNCHANGED <<deltas, snaps>>
              ELSE /\ deltas' = Append(deltas, Take(pending, k))
                   /\ snaps' = Append(snaps, [at    |-> Received + k,
                                              out   |-> stdout',
                                              buf   |-> buffer',
                                              phase |-> in_action_phase'])
    /\ UNCHANGED <<start_time, total_time, metrics, content, thinking, action,
                   result, posts>>

\* line 63: client.events() is exhausted, the server closed the stream
StreamClosed ==
    /\ pc = "loop"
    /\ pc' = "after_loop"
    /\ UNCHANGED <<pending, nevents, now, start_time, time_to_first_token,
                   time_to_thinking_end, total_time, raw_content, buffer,
                   in_action_phase, first_token_received, stdout, metrics,
                   content, thinking, action, result, posts, deltas, snaps,
                   ttft_writes, ttte_writes>>

\* lines 135-145: the lines of the metrics block that show a value
MetricsLines ==
    (IF time_to_first_token # None THEN <<"time_to_first_token">> ELSE <<>>)
    \o (IF time_to_thinking_end # None THEN <<"time_to_thinking_end">> ELSE <<>>)
    \o <<"total_inference_time">>

\* lines 126-155: after the loop, total_time is read, _parse_response splits
\* raw_content, the metrics block is printed and the ModelResponse returned
Return ==
    /\ pc = "after_loop"
    /\ \E t \in now..MaxClock : now' = t /\ total_time' = t - start_time
    /\ content' = raw_content
    /\ thinking' = _parse_response(raw_content)[1]
    /\ action' = _parse_response(raw_content)[2]
    /\ metrics' = MetricsLines
    /\ result' = [thinking |-> thinking',
                  action |-> action',
                  raw_content |-> raw_content,
                  time_to_first_token |-> time_to_first_token,
                  time_to_thinking_end |-> time_to_thinking_end,
                  total_time |-> total_time']
    /\ pc' = "returned"
    /\ UNCHANGED <<pending, nevents, start_time, time_to_first_token,
                   time_to_thinking_end, raw_content, buffer, in_action_phase,
                   first_token_received, stdout, posts, deltas, snaps,
                   ttft_writes, ttte_writes>>

Next ==
    \/ Post
    \/ PostFails
    \/ StreamEvent
    \/ StreamClosed
    \/ Return

Spec == Init /\ [][Next]_vars

----------------------------------------------------------------------------
(* _parse_response on its own: the arguments are all texts made of at most  *)
(* MaxPieces pieces                                                          *)

Pieces ==
    { FinishMarker, DoMarker, AnswerTag, AnswerEndTag, ThinkTag, ThinkEndTag,
      <<" ">>, <<"x">>, <<"\n", "y", "\t">>,
      <<"<", "/", "t", "h", "i">> \o ThinkTag \o <<"n", "k", ">">>,
      <<"<", "/", "a", "n", "s">> \o AnswerEndTag \o <<"w", "e", "r", ">">> }

RECURSIVE Texts(_)
\* the texts made of at most n pieces
Texts(n) ==
    IF n = 0 THEN {<<>>}
    ELSE Texts(n - 1) \cup {t \o p : t \in Texts(n - 1), p \in Pieces}

ParseInit ==
    /\ pc = "parse"
    /\ content \in Texts(MaxPieces)
    /\ pending = <<>>
    /\ nevents = 0
    /\ now = 0
    /\ start_time = 0
    /\ time_to_first_token = None
    /\ time_to_thinking_end = None
    /\ total_time = None
    /\ raw_content = <<>>
    /\ buffer = <<>>
    /\ in_action_phase = FALSE
    /\ first_token_received = FALSE
    /\ stdout = <<>>
    /\ metrics = <<>>
    /\ thinking = <<>>
    /\ action = <<>>
    /\ result = None
    /\ posts = 0
    /\ deltas = <<>>
    /\ snaps = <<>>
    /\ ttft_writes = 0
    /\ ttte_writes = 0

\* lines 157-172: one call of _parse_response(content)
ParseCall ==
    /\ pc = "parse"
    /\ thinking' = _parse_response(content)[1]
    /\ action' = _parse_response(content)[2]
    /\ pc' = "parsed"
    /\ UNCHANGED <<pending, nevents, now, start_time, time_to_first_token,
                   time_to_thinking_end, total_time, raw_content, buffer,
                   in_action_phase, first_token_received, stdout, metrics,
                   content, result, posts, deltas, snaps, ttft_writes,
                   ttte_writes>>

ParseNext == ParseCall

SpecParse == ParseInit /\ [][ParseNext]_vars

----------------------------------------------------------------------------
(* Vocabulary of the properties *)

\* sub occurs in s at index p
OccursAt(s, sub, p) ==
    /\ p \in 1..(Len(s) - Len(sub) + 1)
    /\ \A i \in 1..Len(sub) : s[p + i - 1] = sub[i]

Occurs(s, sub) == \E p \in 1..Len(s) : OccursAt(s, sub, p)

\* p is the index of the first occurrence of sub in s
FirstAt(s, sub, p) ==
    OccursAt(s, sub, p) /\ \A q \in 1..(p - 1) : ~OccursAt(s, sub, q)

\* r is s without its leading and trailing whitespace
IsTrimmed(r, s) ==
    /\ r = <<>> \/ (r[1] \notin Whitespace /\ r[Len(r)] \notin Whitespace)
    /\ \E i \in 0..Len(s) :
          /\ i + Len(r) <= Len(s)
          /\ \A j \in 1..Len(s) :
                IF j <= i \/ j > i + Len(r) THEN s[j] \in Whitespace
                ELSE s[j] = r[j - i]

\* the indices of s that no occurrence of tag covers
Kept(s, tag) ==
    {i \in 1..Len(s) : ~\E p \in 1..i : OccursAt(s, tag, p) /\ i < p + Len(tag)}

\* s without the characters of the occurrences of tag (the tags of this
\* program cannot overlap themselves, so the occurrences are disjoint)
Without(s, tag) ==
    LET keep == Kept(s, tag)
    IN  [n \in 1..Cardinality(keep) |->
            s[CHOOSE i \in keep : Cardinality({j \in keep : j <= i}) = n]]

RECURSIVE Concat(_)
\* the concatenation of a sequence of texts
Concat(ss) == IF ss = <<>> THEN <<>> ELSE Head(ss) \o Concat(Tail(ss))

----------------------------------------------------------------------------
(* Properties of _parse_response, checked under SpecParse *)

\* the text before index p, and the text after the occurrence of sub at p
Before(s, p) == [i \in 1..(p - 1) |-> s[i]]

After(s, sub, p) ==
    [i \in 1..(Len(s) - (p + Len(sub) - 1)) |-> s[p + Len(sub) - 1 + i]]

\* C4: for every content that contains "finish(message=", the action returned
\* is the marker followed by all the text after its first occurrence,
\* untrimmed, and the thinking returned is the text before that occurrence
\* without its leading and trailing whitespace.
C4_FinishSplit ==
    (pc = "parsed" /\ Occurs(content, FinishMarker)) =>
        \E p \in 1..Len(content) :
            /\ FirstAt(content, FinishMarker, p)
            /\ action = FinishMarker \o After(content, FinishMarker, p)
            /\ IsTrimmed(thinking, Before(content, p))

\* a text with two occurrences of the marker, whitespace around the thinking
\* and whitespace at the end of the action
C4_Witness ==
    /\ pc = "parsed"
    /\ \E p, q \in 1..Len(content) :
          p < q /\ OccursAt(content, FinishMarker, p)
                /\ OccursAt(content, FinishMarker, q)
    /\ content[1] \in Whitespace
    /\ action[Len(action)] \in Whitespace

\* C5: the branches apply in the order finish(message=, do(action=: content
\* with "do(action=" and without "finish(message=" is split at the first
\* "do(action="; content with both is split at the first "finish(message=",
\* and when "do(action=" occurs before it the thinking contains "do(action=".
C5_Priority ==
    pc = "parsed" =>
        /\ (Occurs(content, DoMarker) /\ ~Occurs(content, FinishMarker)) =>
              \E p \in 1..Len(content) :
                  /\ FirstAt(content, DoMarker, p)
                  /\ action = DoMarker \o After(content, DoMarker, p)
                  /\ IsTrimmed(thinking, Before(content, p))
        /\ (Occurs(content, DoMarker) /\ Occurs(content, FinishMarker)) =>
              \E p \in 1..Len(content) :
                  /\ FirstAt(content, FinishMarker, p)
                  /\ StartsWith(action, FinishMarker)
                  /\ Len(action) = Len(content) - p + 1
                  /\ (\E q \in 1..(p - 1) : OccursAt(content, DoMarker, q))
                         => Occurs(thinking, DoMarker)

\* both markers, "do(action=" first, and an answer tag as well
C5_Witness ==
    /\ pc = "parsed"
    /\ \E p, q \in 1..Len(content) :
          q < p /\ FirstAt(content, FinishMarker, p)
                /\ OccursAt(content, DoMarker, q)
    /\ Occurs(thinking, DoMarker)

\* s without a closing answer tag at its very end
WithoutTrailingTag(s) ==
    IF EndsWith(s, AnswerEndTag)
    THEN [i \in 1..(Len(s) - Len(AnswerEndTag)) |-> s[i]]
    ELSE s

\* C6 as claimed: content with "<answer>" and no action marker gives the
\* thinking = the text before the first "<answer>" without its think tags,
\* trimmed, and the action = the text after it with only a trailing
\* "</answer>" stripped, trimmed.
C6_TrailingTagOnly ==
    (pc = "parsed" /\ Occurs(content, AnswerTag)
        /\ ~Occurs(content, FinishMarker) /\ ~Occurs(content, DoMarker)) =>
        \E p \in 1..Len(content) :
            /\ FirstAt(content, AnswerTag, p)
            /\ IsTrimmed(thinking,
                   Without(Without(Before(content, p), ThinkTag), ThinkEndTag))
            /\ IsTrimmed(action, WithoutTrailingTag(After(content, AnswerTag, p)))

\* C6 amended: content with "<answer>" and no action marker gives the
\* thinking = the text before the first "<answer>" without its "<think>"
\* tags and then without the "</think>" tags of what is left, trimmed, and
\* the action = the text after it without any occurrence of "</answer>",
\* trimmed; so for content P<answer>X</answer> the action is X trimmed for
\* every X that does not contain "</answer>".
C6_AnswerBranch ==
    (pc = "parsed" /\ Occurs(content, AnswerTag)
        /\ ~Occurs(content, FinishMarker) /\ ~Occurs(content, DoMarker)) =>
        \E p \in 1..Len(content) :
            LET X == WithoutTrailingTag(After(content, AnswerTag, p)) IN
            /\ FirstAt(content, AnswerTag, p)
            /\ IsTrimmed(thinking,
                   Without(Without(Before(content, p), ThinkTag), ThinkEndTag))
            /\ IsTrimmed(action, Without(After(content, AnswerTag, p), AnswerEndTag))
            /\ (EndsWith(content, AnswerEndTag) /\ ~Occurs(X, AnswerEndTag))
                   => IsTrimmed(action, X)

\* a think tag before the answer tag, a closing answer tag that is not at the
\* end of the text
C6_Witness ==
    /\ pc = "parsed"
    /\ ~Occurs(content, FinishMarker) /\ ~Occurs(content, DoMarker)
    /\ \E p, q \in 1..Len(content) :
          /\ FirstAt(content, AnswerTag, p)
          /\ OccursAt(content, AnswerEndTag, q)
          /\ p < q
          /\ q + Len(AnswerEndTag) - 1 < Len(content)
    /\ action # <<>>

\* C7: content with none of "finish(message=", "do(action=" and "<answer>",
\* the empty text included, gives thinking = "" and action = the content,
\* unchanged and untrimmed.
C7_Fallback ==
    (pc = "parsed" /\ ~Occurs(content, FinishMarker)
        /\ ~Occurs(content, DoMarker) /\ ~Occurs(content, AnswerTag)) =>
        (thinking = <<>> /\ action = content)

\* a text with whitespace at both ends and other tags, but no marker
C7_Witness ==
    /\ pc = "parsed"
    /\ ~Occurs(content, FinishMarker) /\ ~Occurs(content, DoMarker)
    /\ ~Occurs(content, AnswerTag)
    /\ Occurs(content, AnswerEndTag)
    /\ content[1] \in Whitespace /\ content[Len(content)] \in Whitespace
    /\ action = content

----------------------------------------------------------------------------
(* Properties of request, checked under Spec *)

\* the number of characters received up to and including the k-th chunk
Boundary(k) == snaps[k].at

\* the thinking text printed up to and including the k-th chunk: stdout
\* without the newline that the detection step prints
LiveText(k) ==
    IF snaps[k].phase
    THEN [i \in 1..(Len(snaps[k].out) - 1) |-> snaps[k].out[i]]
    ELSE snaps[k].out

\* s is a prefix of t
IsPrefix(s, t) == Len(s) <= Len(t) /\ \A i \in 1..Len(s) : s[i] = t[i]

\* C1: raw_content is the in-order concatenation of the content of every
\* content event processed before the sentinel, whatever the phase and the
\* buffer were, and it is the raw_content the request returns.
C1_RawIsConcat ==
    /\ raw_content = Concat(deltas)
    /\ pc = "returned" => result.raw_content = Concat(deltas)

\* three chunks, the first held back in the buffer, the last received in the
\* action phase
C1_Witness ==
    /\ pc = "returned"
    /\ Len(deltas) = 3
    /\ snaps[1].buf # <<>> /\ ~snaps[1].phase
    /\ snaps[2].phase
    /\ pending # <<>>

\* the indices at which an occurrence of marker m straddles the boundary b:
\* it begins at or before b and ends after it
StraddlingStarts(m, b) ==
    LET first == b - Len(action_markers[m]) + 2
    IN  {p \in (IF first < 1 THEN 1 ELSE first)..b :
            OccursAt(raw_content, action_markers[m], p)}

\* C2: when an occurrence of a marker straddles a chunk boundary, no
\* character of that occurrence has been printed by the end of any chunk
\* that ends inside the occurrence (the buffer does not hold the complete
\* marker before the chunk that completes it).
C2_NoPartialMarkerPrinted ==
    \A k \in 1..Len(deltas) : \A m \in 1..Len(action_markers) :
        \A p \in StraddlingStarts(m, Boundary(k)) :
            /\ IsPrefix(LiveText(k), raw_content)
            /\ Len(LiveText(k)) < p

\* "do(action=" cut in three chunks after some thinking text was printed
C2_Witness ==
    /\ Len(deltas) = 3
    /\ \E p \in 2..Len(raw_content) :
          /\ p \in StraddlingStarts(2, Boundary(1))
          /\ p \in StraddlingStarts(2, Boundary(2))
          /\ LiveText(3) = Before(raw_content, p)
    /\ in_action_phase

\* C3 as claimed: when request returns, every character received in the
\* thinking phase before the detected marker has been printed, and every
\* character received when no marker was detected.
C3_ThinkingPrinted ==
    pc = "returned" =>
        IF in_action_phase
        THEN /\ stdout # <<>>
             /\ IsPrefix(Before(stdout, Len(stdout)), raw_content)
             /\ \E m \in 1..Len(action_markers) :
                    OccursAt(raw_content, action_markers[m], Len(stdout))
        ELSE stdout = raw_content

\* C8: time_to_first_token is assigned exactly once, by the first event with
\* content, no later step changes it, and the request returns None for it
\* exactly when no event had content.
C8_FirstTokenOnce ==
    /\ [](/\ ttft_writes = (IF deltas = <<>> THEN 0 ELSE 1)
          /\ (time_to_first_token = None) <=> (deltas = <<>>)
          /\ pc = "returned" =>
                /\ result.time_to_first_token = time_to_first_token
                /\ (result.time_to_first_token = None) <=> (deltas = <<>>))
    /\ [][/\ time_to_first_token # None =>
                time_to_first_token' = time_to_first_token
          /\ ttft_writes' # ttft_writes => (deltas = <<>> /\ Len(deltas') = 1)]_vars

\* three chunks, the clock advancing after the first
C8_Witness ==
    /\ pc = "returned"
    /\ Len(deltas) = 3
    /\ result.time_to_first_token = 0
    /\ result.total_time = 1

\* some marker is in s
HasMarker(s) == \E m \in 1..Len(action_markers) : Occurs(s, action_markers[m])

\* C9: time_to_thinking_end is assigned exactly once, by the step that first
\* finds a marker in the buffer and sets in_action_phase, no later chunk
\* changes it, and the request returns None for it when no marker was found.
C9_ThinkingEndOnce ==
    /\ [](/\ ttte_writes = (IF in_action_phase THEN 1 ELSE 0)
          /\ (time_to_thinking_end # None) <=> in_action_phase
          /\ pc = "returned" =>
                /\ result.time_to_thinking_end = time_to_thinking_end
                /\ ~in_action_phase => result.time_to_thinking_end = None)
    /\ [][/\ time_to_thinking_end # None =>
                time_to_thinking_end' = time_to_thinking_end
          /\ ttte_writes' # ttte_writes =>
                /\ ~in_action_phase /\ in_action_phase'
                /\ ~HasMarker(buffer) /\ HasMarker(buffer')]_vars

\* a marker found at the second chunk, the clock advancing afterwards
C9_Witness ==
    /\ pc = "returned"
    /\ Len(deltas) = 3
    /\ ~snaps[1].phase /\ snaps[2].phase
    /\ result.time_to_thinking_end = 0
    /\ result.total_time = 1

\* C10: once in_action_phase is true it stays true in every later state of
\* the request.
C10_PhaseOneWay == [][in_action_phase => in_action_phase']_vars

\* after the transition, a chunk that ends with the beginning of a marker and
\* a chunk that completes that marker
C10_Witness ==
    /\ Len(deltas) = 3
    /\ snaps[1].phase /\ in_action_phase
    /\ is_potential_marker(deltas[2])
    /\ HasMarker(After(raw_content, <<>>, Boundary(1) + 1))

----------------------------------------------------------------------------
(* Properties of request that relate the stream to the result *)

\* th and ac are the thinking and the action of a text split at the first
\* occurrence of marker
SplitsAt(text, marker, th, ac) ==
    \E p \in 1..Len(text) :
        /\ FirstAt(text, marker, p)
        /\ ac = marker \o After(text, marker, p)
        /\ IsTrimmed(th, Before(text, p))

\* th and ac are the thinking and the action that the text alone determines
SplitOf(text, th, ac) ==
    IF Occurs(text, FinishMarker) THEN SplitsAt(text, FinishMarker, th, ac)
    ELSE IF Occurs(text, DoMarker) THEN SplitsAt(text, DoMarker, th, ac)
    ELSE IF Occurs(text, AnswerTag) THEN
        \E p \in 1..Len(text) :
            /\ FirstAt(text, AnswerTag, p)
            /\ IsTrimmed(th, Without(Without(Before(text, p), ThinkTag), ThinkEndTag))
            /\ IsTrimmed(ac, Without(After(text, AnswerTag, p), AnswerEndTag))
    ELSE th = <<>> /\ ac = text

\* C11: the text fields of the result depend on the concatenation of the
\* chunks only: raw_content is that concatenation, and thinking and action
\* are the split that the concatenated text determines, wherever the chunk
\* boundaries fall and whatever was printed live.
C11_ChunkingIndependent ==
    pc = "returned" =>
        /\ result.raw_content = Concat(deltas)
        /\ SplitOf(Concat(deltas), result.thinking, result.action)

\* "do(action=" was found live in the first chunk, "finish(message=" came
\* split over the next two, and the result is split at "finish(message="
C11_Witness ==
    /\ pc = "returned"
    /\ Len(deltas) = 3
    /\ snaps[1].phase
    /\ Occurs(snaps[1].buf, DoMarker)
    /\ Occurs(raw_content, FinishMarker)
    /\ Occurs(result.thinking, DoMarker)
    /\ StartsWith(result.action, FinishMarker)

\* a step of the loop that took an event without content other than the
\* sentinel: the event counter moved, no chunk was delivered and the loop
\* was not left by break
NoContentStep ==
    /\ pc = "loop"
    /\ nevents' = nevents + 1
    /\ deltas' = deltas
    /\ pc' # "after_loop"

\* C12 as claimed: an event that is malformed or carries no usable content
\* does not abort the request and changes nothing: the loop goes on with
\* raw_content, the buffer, the phase, both timestamps and the live output
\* as they were.
C12_MalformedIsNoOp ==
    [][NoContentStep =>
          /\ pc' = "loop"
          /\ UNCHANGED <<raw_content, buffer, in_action_phase,
                         time_to_first_token, time_to_thinking_end, stdout>>]_vars

\* the POST failed: the request raised before it took any event (an
\* exception raised inside the loop is raised by an event, so nevents > 0)
PostFailed == pc = "raised" /\ nevents = 0

\* C13: when the POST fails or returns a non-success status, the error goes
\* to the caller: no event is consumed, nothing is printed, live or in the
\* metrics block, no result is returned, and the request is not issued
\* again; one call of request issues exactly one POST.
C13_PostFailurePropagates ==
    /\ [](/\ posts <= 1
          /\ pc # "idle" => posts = 1
          /\ PostFailed =>
                /\ deltas = <<>> /\ raw_content = <<>>
                /\ stdout = <<>> /\ metrics = <<>>
                /\ result = None)
    /\ [][PostFailed => FALSE]_vars

\* the POST has failed
C13_Witness == PostFailed /\ posts = 1 /\ pending # <<>>

----------------------------------------------------------------------------
(* Properties of the live scan *)

\* s ends with a non-empty proper prefix of a marker
EndsWithMarkerStart(s) ==
    \E m \in 1..Len(action_markers) :
        \E i \in 1..(Len(action_markers[m]) - 1) :
            /\ i <= Len(s)
            /\ \A j \in 1..i : s[Len(s) - i + j] = action_markers[m][j]

\* a step that processed a chunk
ChunkStep == Len(deltas') = Len(deltas) + 1

\* C14: after a chunk processed in the thinking phase that does not trigger
\* the transition, either the buffer is empty, the whole buffer was printed
\* in that step and it did not end with the beginning of a marker, or the
\* buffer is not empty, ends with the beginning of a marker, and nothing was
\* printed in that step.
C14_BufferEmptyOrHeld ==
    /\ [](~in_action_phase => (buffer = <<>> \/ EndsWithMarkerStart(buffer)))
    /\ [][(ChunkStep /\ ~in_action_phase') =>
             LET whole == buffer \o deltas'[Len(deltas')]
             IN  \/ /\ buffer' = <<>>
                    /\ stdout' = stdout \o whole
                    /\ ~EndsWithMarkerStart(whole)
                 \/ /\ buffer' = whole
                    /\ buffer' # <<>>
                    /\ EndsWithMarkerStart(buffer')
                    /\ stdout' = stdout]_vars

\* a chunk ending with "d" was held, the next one released it with its own
\* text, the third is held again
C14_Witness ==
    /\ Len(snaps) = 3
    /\ ~in_action_phase
    /\ snaps[1].buf # <<>> /\ snaps[1].out = <<>>
    /\ snaps[2].buf = <<>> /\ snaps[2].out # <<>>
    /\ snaps[3].buf # <<>> /\ snaps[3].out = snaps[2].out

\* the step at which the loop enters the action phase
DetectionStep == ChunkStep /\ ~in_action_phase /\ in_action_phase'

\* C15: at the detection step the markers are looked for in the order
\* finish(message=, do(action=, and the buffer is split at the first
\* occurrence of the first marker that is present: what is printed in that
\* step is exactly the buffer text before that occurrence and one newline,
\* so with both markers in the buffer the text before the first
\* finish(message= is printed, a do(action= that precedes it included.
C15_FixedMarkerOrder ==
    [][DetectionStep =>
          LET whole  == buffer \o deltas'[Len(deltas')]
              chosen == IF Occurs(whole, FinishMarker) THEN FinishMarker
                                                       ELSE DoMarker
          IN  /\ \E p \in 1..Len(whole) :
                    /\ FirstAt(whole, chosen, p)
                    /\ stdout' = stdout \o Before(whole, p) \o <<"\n">>
              /\ buffer' = whole]_vars

\* both markers arrived in the buffer at the detection step, do(action=
\* first, and do(action= was printed
C15_Witness ==
    /\ in_action_phase
    /\ Occurs(buffer, FinishMarker)
    /\ Occurs(stdout, DoMarker)
    /\ stdout[Len(stdout)] = "\n"

\* C16: once in the action phase, a content chunk is appended to raw_content
\* and changes nothing else: the buffer, in_action_phase, both timings and
\* the live output are left as they were, whatever the chunk contains.
C16_ActionPhaseFrame ==
    [][(ChunkStep /\ in_action_phase) =>
          /\ raw_content' = raw_content \o deltas'[Len(deltas')]
          /\ UNCHANGED <<buffer, in_action_phase, time_to_first_token,
                         time_to_thinking_end, stdout>>]_vars

\* a chunk that contains a marker was processed in the action phase
C16_Witness ==
    /\ Len(snaps) >= 2
    /\ snaps[Len(snaps) - 1].phase
    /\ HasMarker(deltas[Len(deltas)])
    /\ pc = "loop"

\* C17: the live scan and _parse_response agree on whether there is a marker:
\* in every state, and so at the end of the stream, in_action_phase is true
\* exactly when raw_content contains finish(message= or do(action=, and
\* time_to_thinking_end is present exactly then; hence raw_content has no
\* complete marker while the thinking phase lasts and the transition happens
\* at the first chunk that completes one, however many chunks the marker is
\* spread over.
C17_ScanAgreesWithParse ==
    [](/\ in_action_phase <=> HasMarker(raw_content)
       /\ (time_to_thinking_end # None) <=> HasMarker(raw_content)
       /\ pc = "returned" =>
             (HasMarker(result.raw_content) <=>
                 (result.time_to_thinking_end # None)))

\* a marker whose characters arrived in three chunks, detected at the third
C17_Witness ==
    /\ pc = "returned"
    /\ Len(snaps) = 3
    /\ ~snaps[2].phase
    /\ in_action_phase
    /\ \E p \in 1..Boundary(1) : \E m \in 1..Len(action_markers) :
          /\ OccursAt(raw_content, action_markers[m], p)
          /\ p + Len(action_markers[m]) - 1 > Boundary(2)

----------------------------------------------------------------------------
(* Properties that relate the live output to the result *)

\* what the thinking phase wrote to the live output, the newline printed at
\* the transition left out
LiveThinking == Take(stdout, Len(stdout) - 1)

\* the live output, trimmed, is the thinking returned, and the action
\* returned starts where the live output stopped
LiveIsReturned ==
    /\ IsTrimmed(result.thinking, LiveThinking)
    /\ result.raw_content = LiveThinking \o result.action

\* the chunk at which the marker was detected
DetectedAt(k) ==
    /\ k \in 1..Len(snaps)
    /\ snaps[k].phase
    /\ k > 1 => ~snaps[k - 1].phase

\* C18 as claimed: whenever a marker was detected, the live output of the
\* thinking phase, trimmed, equals the thinking of the Result, and the action
\* of the Result starts at the marker occurrence where the live output
\* stopped.
C18_LiveIsReturned ==
    (pc = "returned" /\ in_action_phase) => LiveIsReturned

\* C18 amended: the same, provided that raw_content holds no finish(message=
\* or already held one when the marker was detected; a finish(message= that
\* arrives after a detected do(action= moves the split of _parse_response to
\* the right of where the live output stopped.
C18_LiveIsReturnedUnlessLateFinish ==
    (pc = "returned" /\ in_action_phase) =>
        \A k \in 1..Len(snaps) :
            (/\ DetectedAt(k)
             /\ Occurs(raw_content, FinishMarker) =>
                    Occurs(Take(raw_content, Boundary(k)), FinishMarker))
                => LiveIsReturned

\* both markers were in the buffer at the detection, do(action= first: it
\* was printed live and is in the thinking returned; the text before it
\* starts with whitespace, which the thinking returned has lost
C18_Witness ==
    /\ pc = "returned"
    /\ in_action_phase
    /\ \E k \in 1..Len(snaps) :
          DetectedAt(k) /\ Occurs(Take(raw_content, Boundary(k)), FinishMarker)
    /\ Occurs(LiveThinking, DoMarker)
    /\ LiveThinking[1] \in Whitespace
    /\ Occurs(result.thinking, DoMarker)
    /\ StartsWith(result.action, FinishMarker)

\* C19: in every state of the thinking phase the live output followed by the
\* buffer is raw_content; so the live output is always a prefix of
\* raw_content (in the action phase, up to the newline of the transition),
\* and the step that enters the action phase leaves as live output the
\* prefix of raw_content before the first occurrence of the matched marker,
\* and a newline.
C19_ThinkingConserved ==
    /\ [](IF in_action_phase
          THEN /\ IsPrefix(LiveThinking, raw_content)
               /\ stdout = LiveThinking \o <<"\n">>
          ELSE stdout \o buffer = raw_content)
    /\ [][DetectionStep =>
             LET whole   == buffer \o deltas'[Len(deltas')]
                 matched == IF Occurs(whole, FinishMarker) THEN FinishMarker
                                                           ELSE DoMarker
             IN  \E p \in 1..Len(raw_content') :
                    /\ FirstAt(raw_content', matched, p)
                    /\ stdout' = Before(raw_content', p) \o <<"\n">>]_vars

\* a chunk was printed, the next one was held, the third completed a marker
C19_Witness ==
    /\ Len(snaps) = 3
    /\ snaps[1].out # <<>> /\ snaps[1].buf = <<>>
    /\ snaps[2].buf # <<>> /\ ~snaps[2].phase /\ snaps[2].out = snaps[1].out
    /\ snaps[3].phase
    /\ Len(stdout) > Len(snaps[2].out) + 1

====
